---- MODULE Spec2Model ----
(***************************************************************************)
(* Model of the MCASS snow dashboard (src/mcass-dashboard.py): the         *)
(* geometry table built by read_basin_geometry, the spatial locator        *)
(* (get_subbasin_code_from_tap / get_region_from_tap), the selection       *)
(* widgets and the reactive callbacks that keep map, picker and chart in   *)
(* step.                                                                   *)
(*                                                                         *)
(* Conventions.                                                            *)
(*  - Python's None is the empty tuple <<>>, a present value v is <<v>>.   *)
(*  - Python strings are TLA+ strings; Python list index k is k + 1 here.  *)
(*  - A place on the map is a cell 1..NCells.  Each coordinate reference   *)
(*    system gives a cell its own coordinate pair; a polygon is the set of *)
(*    coordinate pairs (in its CRS) of the cells strictly inside it.       *)
(*  - A function that can raise returns [exc |-> name, ret |-> value];     *)
(*    exc = "none" is a normal return.                                     *)
(*  - param delivers a parameter change to its watchers synchronously, in  *)
(*    registration order, only when the value really changed; an exception *)
(*    raised by a watcher ends the delivery (later watchers are not run).  *)
(***************************************************************************)
EXTENDS Integers, Sequences, FiniteSets, TLC

(***************************************************************************)
(* Bounds of the model.                                                    *)
(***************************************************************************)
\* number of records in the geometry file
NBasins == 40
\* number of map cells a click can land in
NCells == 3
\* the user picks among the first MaxPick entries of the option list
MaxPick == 2

None == <<>>
Some(v) == <<v>>

(***************************************************************************)
(* Strings: Python compares str by code point.                             *)
(***************************************************************************)
\* the characters the data uses, in increasing code point order
AsciiChars == " -0123456789<>ABCDEFGHIJKLMNOPQRSTUVWXYZ_abcdefghijklmnopqrstuvwxyz"

Ord(c) == CHOOSE i \in 1..Len(AsciiChars) : SubSeq(AsciiChars, i, i) = c

RECURSIVE StrLess(_, _)
\* a < b for Python str
StrLess(a, b) ==
    IF Len(b) = 0 THEN FALSE
    ELSE IF Len(a) = 0 THEN TRUE
    ELSE IF Head(a) = Head(b) THEN StrLess(Tail(a), Tail(b))
    ELSE Ord(Head(a)) < Ord(Head(b))

RECURSIVE FindSub(_, _, _)
\* str.find(sep) from position i (1-based); 0 when sep does not occur
FindSub(s, sep, i) ==
    IF i + Len(sep) - 1 > Len(s) THEN 0
    ELSE IF SubSeq(s, i, i + Len(sep) - 1) = sep THEN i
    ELSE FindSub(s, sep, i + 1)

\* a faulty split that never finds the separator
SplitKeepingAll(s, sep) == s

\* s.split(sep)[0]
SplitFirst(s, sep) ==
    LET k == FindSub(s, sep, 1)
    IN  IF k = 0 THEN s ELSE SubSeq(s, 1, k - 1)

(***************************************************************************)
(* Coordinate reference systems.                                           *)
(***************************************************************************)
Cells == 1..NCells

\* the coordinate pair of a cell in each CRS
CellCoord(crs, c) ==
    CASE crs = "EPSG:4326"  -> <<60 + c, 38>>
      [] crs = "EPSG:3857"  -> <<6679000 + 111000 * c, 4580000>>
      [] crs = "EPSG:32642" -> <<150000 + 87000 * c, 4210000>>

\* to_crs of one coordinate pair
PointToCrs(p, from, to) ==
    LET c == CHOOSE k \in Cells : CellCoord(from, k) = p
    IN  CellCoord(to, c)

\* to_crs of a polygon
GeomToCrs(g, from, to) == { PointToCrs(p, from, to) : p \in g }

\* the polygon (in the file's CRS) that covers a set of cells
Poly(cells) == { CellCoord("EPSG:4326", c) : c \in cells }

\* shapely: polygon.contains(point)
Contains(g, p) == p \in g

(***************************************************************************)
(* The geometry file www/CA-discharge_basins_plus.gpkg (with overlaps).    *)
(***************************************************************************)
RegionNames ==
    <<"SYR_DARYA", "AMU_DARYA", "CHU_TALAS", "ZERAFSHAN", "ISSYKUL", "MURGHAB_HARIRUD">>
RiverNames == <<"Naryn", "Vakhsh", "Chu">>

\* the parts of record i: a Polygon has one part, a MultiPolygon several
FileParts(i) ==
    CASE i = 1 -> << [area |-> 90, geom |-> Poly({1})] >>
      [] i = 2 -> << [area |-> 30, geom |-> Poly({1})] >>
      [] i = 3 -> << [area |-> 30, geom |-> Poly({1})] >>
      [] i = 4 -> << [area |-> 5,  geom |-> Poly({3})],
                     [area |-> 20, geom |-> Poly({2})],
                     [area |-> 20, geom |-> Poly({})] >>
      [] OTHER -> << [area |-> 10, geom |-> Poly({})] >>

FileArea(i) ==
    CASE i = 1 -> 9000
      [] i = 2 -> 3000
      [] i = 3 -> 3000
      [] i = 4 -> 800
      [] OTHER -> 1000 + 37 * i

\* record i of the file (i = 1 is pandas index label 0)
FileRecord(i) ==
    [ REGION       |-> RegionNames[((i - 1) % Len(RegionNames)) + 1],
      BASIN        |-> i,
      CODE         |-> 16000 + i,
      gauges_RIVER |-> IF i % 4 = 0 THEN None
                       ELSE Some(RiverNames[(i % Len(RiverNames)) + 1]),
      area_km2     |-> FileArea(i),
      parts        |-> FileParts(i) ]

GeomFile == [ i \in 1..NBasins |-> FileRecord(i) ]

(***************************************************************************)
(* The status tables data/subbasins_merged_data.csv and                    *)
(* data/regions_merged_data.csv, written by the aggregation job.  The job  *)
(* writes one row per file it globbed, so an id can occur more than once.  *)
(***************************************************************************)
StatusRow(id, swe, hs) == [basin_id |-> id, swe_threshold |-> swe, hs_threshold |-> hs]

SubbasinStatusTable ==
    << StatusRow("16001", "normal", "normal"), StatusRow("16002", "high", "normal"),
       StatusRow("16002", "normal", "high"), StatusRow("16003", "low", "low") >>

RegionStatusTable ==
    << StatusRow("AMU", "normal", "normal"), StatusRow("SYR", "high", "normal"),
       StatusRow("CHU", "low", "normal") >>

NaN == "NaN"

(***************************************************************************)
(* read_basin_geometry                                                     *)
(***************************************************************************)
RECURSIVE ArgMaxLast(_, _, _)
\* a faulty choice that takes the last part of largest area
ArgMaxLast(parts, i, best) ==
    IF i > Len(parts) THEN best
    ELSE ArgMaxLast(parts, i + 1,
                    IF parts[i].area >= parts[best].area THEN i ELSE best)

RECURSIVE ArgMaxFirst(_, _, _)
\* Python max(parts, key=area): the first part of largest area
ArgMaxFirst(parts, i, best) ==
    IF i > Len(parts) THEN best
    ELSE ArgMaxFirst(parts, i + 1,
                     IF parts[i].area > parts[best].area THEN i ELSE best)

\* lines 63-64: a MultiPolygon is replaced by its largest polygon
LargestPolygon(parts) ==
    IF Len(parts) > 1 THEN parts[ArgMaxFirst(parts, 1, 1)].geom ELSE parts[1].geom

\* line 67: simplify(0.01); the cells are coarser than the tolerance, so the
\* set of cells strictly inside a polygon is the same before and after
Simplify(g) == { p \in g : TRUE }

\* astype(str) of a nullable text column
AsTypeStr(v) == IF v = None THEN "None" ELSE v[1]

\* lines 60-85: the rows in file order, before the sort
LoadedRow(rec, i) ==
    LET river == AsTypeStr(rec.gauges_RIVER)
        river2 == IF river = "None" THEN "<river name unknown>" ELSE river
        code == ToString(rec.CODE)
    IN  [ REGION       |-> rec.REGION,
          BASIN        |-> ToString(rec.BASIN),
          CODE         |-> code,
          gauges_RIVER |-> river2,
          area_km2     |-> rec.area_km2,
          geometry     |-> Simplify(LargestPolygon(rec.parts)),
          selected     |-> (i = 1),
          label        |-> code \o " - " \o river2 ]

LoadedRows(file) == [ i \in 1..Len(file) |-> LoadedRow(file[i], i) ]

AreaGreater(a, b) == a.area_km2 > b.area_km2

LessRegionCode(a, b) ==
    \/ StrLess(a.REGION, b.REGION)
    \/ a.REGION = b.REGION /\ StrLess(a.CODE, b.CODE)

LessRegion(a, b) == StrLess(a.REGION, b.REGION)

\* the order of two rows under the sort keys of the three sort_values calls
RowLess(by, a, b) ==
    CASE by = "area_km2 descending" -> AreaGreater(a, b)
      [] by = "REGION, CODE"        -> LessRegionCode(a, b)
      [] by = "REGION"              -> LessRegion(a, b)

\* a stable sort: row i goes behind the rows that sort before it and behind
\* the earlier rows it ties with
SortStable(rows, by) ==
    LET n == Len(rows)
        pos == [ i \in 1..n |->
                 1 + Cardinality({ j \in 1..n :
                        \/ RowLess(by, rows[j], rows[i])
                        \/ ~RowLess(by, rows[i], rows[j]) /\ j < i }) ]
    IN  [ k \in 1..n |-> rows[CHOOSE i \in 1..n : pos[i] = k] ]

\* one area-descending order of the rows
SortByAreaDesc(rows) == SortStable(rows, "area_km2 descending")

Swap(s, i) == [ k \in 1..Len(s) |-> IF k = i THEN s[i + 1] ELSE IF k = i + 1 THEN s[i] ELSE s[k] ]

\* line 88: sort_values('area_km2', ascending=False) uses an unstable sort;
\* rows of equal area can come out in either order
SortValuesAreaDescending(rows) ==
    LET d == SortByAreaDesc(rows)
    IN  {d} \cup { Swap(d, i) : i \in { k \in 1..(Len(d) - 1) : d[k].area_km2 = d[k + 1].area_km2 } }

RECURSIVE Flatten(_)
Flatten(ss) == IF ss = <<>> THEN <<>> ELSE Head(ss) \o Flatten(Tail(ss))

\* lines 96-97
WithSubbasinStatus(row, m) ==
    row @@ [ swe_threshold |-> IF m = None THEN NaN ELSE m[1].swe_threshold,
             hs_threshold  |-> IF m = None THEN NaN ELSE m[1].hs_threshold ]

\* lines 110-112
WithRegionStatus(row, m) ==
    row @@ [ REG |-> SplitFirst(row.REGION, "_"),
             swe_threshold_regional |-> IF m = None THEN NaN ELSE m[1].swe_threshold,
             hs_threshold_regional  |-> IF m = None THEN NaN ELSE m[1].hs_threshold ]

KeyCode(row) == row.CODE
KeyReg(row) == SplitFirst(row.REGION, "_")

\* the left key of the two merges
MergeKey(left_on, row) == IF left_on = "CODE" THEN KeyCode(row) ELSE KeyReg(row)

\* a left row with the columns a merge adds from the matching right row m
MergeColumns(left_on, row, m) ==
    IF left_on = "CODE" THEN WithSubbasinStatus(row, m) ELSE WithRegionStatus(row, m)

\* pandas merge(how='left'): left order kept; a left row is repeated once per
\* matching right row and gets NaN when there is none
MergeLeft(left, right, left_on) ==
    Flatten([ i \in 1..Len(left) |->
        LET m == SelectSeq(right, LAMBDA r : r.basin_id = MergeKey(left_on, left[i]))
        IN  IF m = <<>> THEN << MergeColumns(left_on, left[i], None) >>
            ELSE [ k \in 1..Len(m) |-> MergeColumns(left_on, left[i], Some(m[k])) ] ])

\* the tables read_basin_geometry can return for a file and status tables
read_basin_geometry(file, df, df_regional) ==
    { MergeLeft(MergeLeft(sorted, df, "CODE"), df_regional, "REG")
      : sorted \in SortValuesAreaDescending(LoadedRows(file)) }

(***************************************************************************)
(* The option lists of the picker                                          *)
(***************************************************************************)
RECURSIVE Unique(_, _)
\* pandas unique(): first occurrences, in order
Unique(s, seen) ==
    IF s = <<>> THEN <<>>
    ELSE IF Head(s) \in seen THEN Unique(Tail(s), seen)
    ELSE <<Head(s)>> \o Unique(Tail(s), seen \cup {Head(s)})

\* lines 118-131
get_basin_selector_names_in_list(g) ==
    LET gdf_for_names == SortStable(g, "REGION, CODE")
    IN  [ i \in 1..Len(gdf_for_names) |-> gdf_for_names[i].label ]

\* lines 133-147
get_region_selector_names_in_list(g) ==
    LET gdf_for_names == SortStable(g, "REGION")
    IN  Unique([ i \in 1..Len(gdf_for_names) |-> gdf_for_names[i].REGION ], {})


(***************************************************************************)
(* Spatial locator                                                         *)
(***************************************************************************)
\* gdf.to_crs(crs): a new table, the shared one is not touched
GdfToCrs(g, crs) ==
    [ i \in 1..Len(g) |-> [ g[i] EXCEPT !.geometry = GeomToCrs(@, "EPSG:4326", crs) ] ]

\* a faulty projection that works in place (to_crs(..., inplace=True))
GdfAfterToCrsInplace(g, crs) == GdfToCrs(g, crs)

\* lines 202 / 231: the shared table after gdf.to_crs(crs), which returns a
\* new table
GdfAfterToCrs(g, crs) == g

\* lines 196-223 / 225-252: the shared table after a call of a locator; the
\* only statement that names gdf is the projection
GdfAfterTap(g, x, y) ==
    IF x # None \/ y # None THEN GdfAfterToCrs(g, "EPSG:32642") ELSE g

\* a faulty locator that takes the first containing polygon (true_indices[0])
ClickedPolygonIndexFirst(gdf_projected, x, y) ==
    LET clicked_point_transformed == PointToCrs(<<x[1], y[1]>>, "EPSG:3857", "EPSG:32642")
        true_indices == { i \in 1..Len(gdf_projected) :
                            Contains(gdf_projected[i].geometry, clicked_point_transformed) }
    IN  IF true_indices # {}
        THEN Some(CHOOSE i \in true_indices : \A j \in true_indices : i <= j)
        ELSE None

\* lines 200-214 / 229-243: the position of the last polygon that contains
\* the click, None when no polygon does
ClickedPolygonIndex(gdf_projected, x, y) ==
    LET clicked_point_transformed == PointToCrs(<<x[1], y[1]>>, "EPSG:3857", "EPSG:32642")
        true_indices == { i \in 1..Len(gdf_projected) :
                            Contains(gdf_projected[i].geometry, clicked_point_transformed) }
    IN  IF true_indices # {}
        THEN Some(CHOOSE i \in true_indices : \A j \in true_indices : j <= i)
        ELSE None

\* lines 196-223 and 225-252 differ in the column they return.
\* iloc[None] raises TypeError (cannot index by location with a non-integer key)
TapLookup(g, x, y, column) ==
    IF x # None \/ y # None
    THEN LET gdf_projected == GdfToCrs(g, "EPSG:32642")
             clicked_polygon_index == ClickedPolygonIndex(gdf_projected, x, y)
         IN  IF clicked_polygon_index = None
             THEN [ exc |-> "TypeError", ret |-> None ]
             ELSE [ exc |-> "none",
                    ret |-> Some(gdf_projected[clicked_polygon_index[1]][column]) ]
    ELSE [ exc |-> "none", ret |-> None ]

get_subbasin_code_from_tap(g, x, y) == TapLookup(g, x, y, "label")

\* a faulty regional locator that returns the label column
RegionFromTapReturningLabel(g, x, y) == TapLookup(g, x, y, "label")

get_region_from_tap(g, x, y) == TapLookup(g, x, y, "REGION")

(***************************************************************************)
(* Time-series files and the chart composer                                *)
(***************************************************************************)
\* <basin_code>_<kind>.txt files that are absent from the data directory
MissingFiles == { <<"16002", "previous">>, <<"CHU_TALAS", "current">> }

\* lines 263-300: a data frame, or the error text when reading raised
ReadFile(basin_code, kind) ==
    IF <<basin_code, kind>> \in MissingFiles
    THEN [ type |-> "str", id |-> basin_code, kind |-> kind ]
    ELSE [ type |-> "DataFrame", id |-> basin_code, kind |-> kind ]

read_current_data_for_basin(basin_code) == ReadFile(basin_code, "current")
read_previous_year_data_for_basin(basin_code) == ReadFile(basin_code, "previous")
read_climate_data_for_basin(basin_code) == ReadFile(basin_code, "climate")

\* lines 255-261
get_river_name_for_basin(g, basin_code) ==
    LET hits == { i \in 1..Len(g) : g[i].CODE = basin_code }
    IN  IF hits = {} THEN "Error in get_river_name_for_basin"
        ELSE g[CHOOSE i \in hits : \A j \in hits : i <= j].gauges_RIVER

YLabel(variable) ==
    CASE variable = "SWE" -> "SWE (mm)"
      [] variable = "HS"  -> "HS (m)"
      [] OTHER            -> "ROF (mm)"

ErrorText(where) == [ type |-> "str", text |-> "Error in " \o where ]

\* a faulty composer that builds every curve from the current frame alone
FramesUsedCurrentOnly(variable, dfcurrent, dfprevious, dfclimate) == {dfcurrent}

\* the frames the curves of a variable are built from; the previous-year
\* curve of ROF is an empty placeholder
FramesUsed(variable, dfcurrent, dfprevious, dfclimate) ==
    IF variable \in {"SWE", "HS"} THEN {dfcurrent, dfprevious, dfclimate}
    ELSE {dfcurrent, dfclimate}

\* lines 470-575
plot_subbasin_data(g, variable, basin) ==
    IF basin = <<>> THEN ErrorText("plot_subbasin_data")
    ELSE LET basin_code == SplitFirst(basin[1], " - ")
             dfcurrent  == read_current_data_for_basin(basin_code)
             dfprevious == read_previous_year_data_for_basin(basin_code)
             dfclimate  == read_climate_data_for_basin(basin_code)
             river_name == get_river_name_for_basin(g, basin_code)
         IN  IF \E f \in FramesUsed(variable, dfcurrent, dfprevious, dfclimate) :
                    f.type = "str"
             THEN ErrorText("plot_subbasin_data")
             ELSE [ type       |-> "fig",
                    basin_code |-> basin_code,
                    name       |-> river_name,
                    title      |-> variable \o " situation for basin of river "
                                   \o river_name \o " (gauge " \o basin_code \o ")",
                    ylabel     |-> YLabel(variable) ]

\* lines 595-605: the chain of comparisons has no else branch
BasinName(basin_code) ==
    CASE basin_code = "AMU_DARYA"       -> Some("Amu Darya")
      [] basin_code = "CHU_TALAS"       -> Some("Chu-Talas")
      [] basin_code = "ISSYKUL"         -> Some("Issykul")
      [] basin_code = "MURGHAB_HARIRUD" -> Some("Murghab-Harirud")
      [] basin_code = "SYR_DARYA"       -> Some("Syr Darya")
      [] OTHER                          -> None

\* lines 577-686
plot_region_data(variable, basin) ==
    IF basin = <<>> THEN ErrorText("plot_region_data")
    ELSE LET basin_code == SplitFirst(basin[1], " - ")
             dfcurrent  == read_current_data_for_basin(basin_code)
             dfprevious == read_previous_year_data_for_basin(basin_code)
             dfclimate  == read_climate_data_for_basin(basin_code)
             basin_name == BasinName(basin_code)
         IN  IF \/ \E f \in FramesUsed(variable, dfcurrent, dfprevious, dfclimate) :
                        f.type = "str"
                \/ basin_name = None
             THEN ErrorText("plot_region_data")
             ELSE [ type       |-> "fig",
                    basin_code |-> basin_code,
                    name       |-> basin_name[1],
                    title      |-> variable \o " situation for the " \o basin_name[1]
                                   \o " basin",
                    ylabel     |-> YLabel(variable) ]

\* lines 688-704
get_snow_plot(g, value, variable, basin) ==
    IF value = "Regional" THEN plot_region_data(variable, basin)
    ELSE plot_subbasin_data(g, variable, basin)


(***************************************************************************)
(* State                                                                   *)
(***************************************************************************)
VARIABLES
    gdf,               \* the shared geometry table (module global, line 308)
    basins_list,       \* line 310
    regions_list,      \* line 311
    output,            \* the text of the message pane (line 315)
    variable_options,  \* value of the variable toggle
    view_options,      \* value of the view toggle
    basin_selection,   \* the picker: [options, value]
    tap_regional,      \* Tap stream of the regional map: [x, y]
    tap_subbasin,      \* Tap stream of the sub-basin map: [x, y]
    map_plot,          \* what the map card shows
    snow_plot,         \* what the chart card shows
    raised,            \* the exception that ended the last recomputation
    phase,             \* "script": panes not built yet; "served": built
    last_event,        \* the user interaction handled last
    recomputations,    \* callback runs the last interaction triggered
    job,               \* the file-processing function applied last
    job_input,         \* the file contents it was applied to
    job_output         \* what it returned

vars == << gdf, basins_list, regions_list, output, variable_options, view_options,
           basin_selection, tap_regional, tap_subbasin, map_plot, snow_plot,
           raised, phase, last_event, recomputations, job, job_input, job_output >>

\* the mutable part of the state, as the callbacks see and change it
Snapshot ==
    [ gdf |-> gdf, output |-> output, variable |-> variable_options,
      view |-> view_options, sel |-> basin_selection,
      tap_regional |-> tap_regional, tap_subbasin |-> tap_subbasin,
      map_plot |-> map_plot, snow_plot |-> snow_plot, exc |-> "none", runs |-> 0 ]

\* the longest chain of callback runs followed for one interaction
MaxChain == 8

(***************************************************************************)
(* Selection state and reactive callbacks                                  *)
(***************************************************************************)
\* a faulty update that leaves the selected column as it is
UpdateGdfKeepingFlags(g, selected_basin, view_option) == g

\* lines 149-179
update_gdf_with_selected_basin(g, selected_basin, view_option) ==
    IF selected_basin # None /\ Len(selected_basin) > 0
    THEN IF view_option = "Regional"
         THEN [ i \in 1..Len(g) |->
                  [ g[i] EXCEPT !.selected = (g[i].REGION = selected_basin[1]) ] ]
         ELSE [ i \in 1..Len(g) |->
                  [ g[i] EXCEPT !.selected = (g[i].label = selected_basin[1]) ] ]
    ELSE g

MapTitle(view_option, variable_selection) ==
    IF view_option = "Regional" THEN "Regional river basins"
    ELSE variable_selection \o " situation in sub-basins"

\* lines 344-416: updates the selected column of the shared table and
\* returns the map with the selected polygons drawn on top
plot_regional_map(S, selected_basin, view_option, variable_selection) ==
    LET g == update_gdf_with_selected_basin(S.gdf, selected_basin, view_option)
        mapplot == [ type  |-> "map",
                     title |-> MapTitle(view_option, variable_selection),
                     view  |-> view_option,
                     selected_polygon_plot |->
                        IF Len(selected_basin) = 1
                        THEN { i \in 1..Len(g) : g[i].selected }
                        ELSE {} ]
    IN  [ S EXCEPT !.gdf = g, !.map_plot = mapplot ]

\* the pane of get_snow_plot re-evaluates it with the current widget values
SnowPane(S) ==
    [ S EXCEPT !.snow_plot = get_snow_plot(S.gdf, S.view, S.variable, S.sel.value),
               !.runs = @ + 1 ]

\* an exception raised by a watcher ends the notification: the watchers
\* registered after it are not called
ThenSnowPane(S1) == IF S1.exc # "none" THEN S1 ELSE SnowPane(S1)

RECURSIVE ValueWatchers(_)

\* a faulty setter that notifies the watchers also when the value is the
\* one the picker already has
SetValueAlwaysNotifying(S, v) ==
    IF S.runs > MaxChain THEN [ S EXCEPT !.sel.value = v ]
    ELSE ValueWatchers([ S EXCEPT !.sel.value = v ])

\* basin_selection.value = v: watchers are called only on a change; a chain
\* is followed for MaxChain runs
SetValue(S, v) ==
    IF v = S.sel.value THEN S
    ELSE IF S.runs > MaxChain THEN [ S EXCEPT !.sel.value = v ]
    ELSE ValueWatchers([ S EXCEPT !.sel.value = v ])

\* a faulty callback that leaves the picker alone when the click is located
SetValueFromTapKeepingPicker(S, r) ==
    IF r.exc # "none" THEN [ S EXCEPT !.exc = r.exc ] ELSE S

\* lines 186-193: an exception of the locator propagates; a located
\* identifier becomes the picker's value
SetValueFromTap(S, r) ==
    IF r.exc # "none" THEN [ S EXCEPT !.exc = r.exc ]
    ELSE IF r.ret # None THEN SetValue(S, << r.ret[1] >>)
    ELSE S

\* lines 182-193
update_basin_selection_widget_with_tap(S, view_option, xs, ys, xr, yr) ==
    SetValueFromTap(S, IF view_option = "Regional"
                       THEN get_region_from_tap(S.gdf, xr, yr)
                       ELSE get_subbasin_code_from_tap(S.gdf, xs, ys))

\* lines 429-434
DumPlot(S1, view_option, variable_selection) ==
    IF S1.exc # "none" THEN S1
    ELSE plot_regional_map(S1, S1.sel.value, view_option, variable_selection)

\* lines 418-434; the pane shows the returned plot
dynamically_update_map(S) ==
    DumPlot(update_basin_selection_widget_with_tap(
                  [ S EXCEPT !.runs = @ + 1 ], S.view, S.tap_subbasin.x, S.tap_subbasin.y,
                  S.tap_regional.x, S.tap_regional.y), S.view, S.variable)

\* watchers of basin_selection.value, in registration order: the pane of
\* dynamically_update_map (built at line 738), the pane of get_snow_plot
\* (line 744)
ValueWatchers(S) == ThenSnowPane(dynamically_update_map(S))

\* watchers of the Tap streams: the pane of dynamically_update_map
TapWatchers(S) == dynamically_update_map(S)

\* watchers of variable_options.value
VariableWatchers(S) == ThenSnowPane(dynamically_update_map(S))

\* line 465: the index of the default sub-basin in basins_list
DefaultSubbasinIndex == 37

\* a faulty callback that writes the picker's value and not its options
UpdateSelectionKeepingOptions(S, view_option, bl, rl) ==
    IF view_option = "Regional" THEN SetValue(S, << rl[1] >>)
    ELSE SetValue(S, << bl[DefaultSubbasinIndex + 1] >>)

\* lines 456-465
update_basin_selection_widget_with_region_selection(S, view_option, bl, rl) ==
    IF view_option = "Regional"
    THEN SetValue([ S EXCEPT !.sel.options = rl ], << rl[1] >>)
    ELSE IF DefaultSubbasinIndex + 1 \in 1..Len(bl)
    THEN SetValue([ S EXCEPT !.sel.options = bl ], << bl[DefaultSubbasinIndex + 1] >>)
    ELSE [ S EXCEPT !.sel.options = bl, !.exc = "IndexError" ]

\* lines 449-453: the except branch of get_map_plot
ErrorInGetMapPlot(S1, message) ==
    [ S1 EXCEPT !.exc = "none", !.output = message,
                !.map_plot = [ type |-> "str", text |-> message ] ]

\* lines 447-453
MapPlotOrError(S1) ==
    IF S1.exc # "none"
    THEN ErrorInGetMapPlot(S1, S1.output \o "\nError in get_map_plot")
    ELSE S1

\* lines 437-453: builds a new pane of dynamically_update_map, which
\* evaluates it; an exception becomes text in the message pane
get_map_plot(S) == MapPlotOrError(dynamically_update_map(S))

\* the panes that watch view_options.value, called after the callback of
\* line 456 unless it raised
PanesAfterViewChange(S1) ==
    IF S1.exc # "none" THEN S1
    ELSE ThenSnowPane(dynamically_update_map(get_map_plot(S1)))

\* watchers of view_options.value, in registration order: the callback of
\* line 456, the pane of get_map_plot, the pane of dynamically_update_map,
\* the pane of get_snow_plot
ViewWatchers(S, bl, rl) ==
    PanesAfterViewChange(
        update_basin_selection_widget_with_region_selection(S, S.view, bl, rl))


(***************************************************************************)
(* Initial state: the module has run up to line 341 (geometry loaded,      *)
(* widgets and Tap streams created); the panes are not built yet.          *)
(***************************************************************************)
NoTap == [ x |-> None, y |-> None ]

Init ==
      \E g \in read_basin_geometry(GeomFile, SubbasinStatusTable, RegionStatusTable) :
        /\ gdf = g
        /\ basins_list = get_basin_selector_names_in_list(g)
        /\ regions_list = get_region_selector_names_in_list(g)
        /\ output = "Default message. Prints: Basin code and name upon click on a basin."
        /\ variable_options = "SWE"
        /\ view_options = "Regional"
        /\ basin_selection = [ options |-> regions_list, value |-> << regions_list[1] >> ]
        /\ tap_regional = NoTap
        /\ tap_subbasin = NoTap
        /\ map_plot = [ type |-> "none" ]
        /\ snow_plot = [ type |-> "none" ]
        /\ raised = "none"
        /\ phase = "script"
        /\ last_event = [ type |-> "init", arg |-> "" ]
        /\ recomputations = 0
        /\ job = "none"
        /\ job_input = <<>>
        /\ job_output = <<>>

\* the state the callbacks leave behind
Commit(S, event) ==
    /\ gdf' = S.gdf
    /\ output' = S.output
    /\ variable_options' = S.variable
    /\ view_options' = S.view
    /\ basin_selection' = S.sel
    /\ tap_regional' = S.tap_regional
    /\ tap_subbasin' = S.tap_subbasin
    /\ map_plot' = S.map_plot
    /\ snow_plot' = S.snow_plot
    /\ raised' = S.exc
    /\ last_event' = event
    /\ recomputations' = S.runs
    /\ UNCHANGED << basins_list, regions_list, job, job_input, job_output >>

(***************************************************************************)
(* Actions                                                                 *)
(***************************************************************************)
\* lines 736-748: the layout builds the map pane and the chart pane, each
\* evaluating its function once
InitialRender ==
    /\ phase = "script"
    /\ phase' = "served"
    /\ Commit(SnowPane(get_map_plot(Snapshot)), [ type |-> "render", arg |-> "" ])

\* a click on the map in a cell: the Tap stream of the map on display gets
\* the click's Web Mercator coordinates
MapClick(c) ==
    LET p == CellCoord("EPSG:3857", c)
        tap == [ x |-> Some(p[1]), y |-> Some(p[2]) ]
    IN  /\ phase = "served"
        /\ IF view_options = "Regional"
           THEN /\ tap # tap_regional
                /\ Commit(TapWatchers([ Snapshot EXCEPT !.tap_regional = tap ]),
                          [ type |-> "click", arg |-> "" ])
           ELSE /\ tap # tap_subbasin
                /\ Commit(TapWatchers([ Snapshot EXCEPT !.tap_subbasin = tap ]),
                          [ type |-> "click", arg |-> "" ])
        /\ UNCHANGED phase

\* the user removes the picker's item (max_items = 1: the picker takes a new
\* item only when it is empty)
PickerClear ==
    /\ phase = "served"
    /\ basin_selection.value # <<>>
    /\ Commit(SetValue(Snapshot, <<>>), [ type |-> "clear", arg |-> "" ])
    /\ UNCHANGED phase

\* the user chooses an item of the option list
PickerChoose(b) ==
    /\ phase = "served"
    /\ basin_selection.value = <<>>
    /\ Commit(SetValue(Snapshot, << b >>), [ type |-> "pick", arg |-> b ])
    /\ UNCHANGED phase

\* the user toggles Regional / Sub-basin
ViewToggle ==
    LET v == IF view_options = "Regional" THEN "Sub-basin" ELSE "Regional"
    IN  /\ phase = "served"
        /\ Commit(ViewWatchers([ Snapshot EXCEPT !.view = v ], basins_list, regions_list),
                  [ type |-> "view", arg |-> v ])
        /\ UNCHANGED phase

\* the user toggles SWE / HS / ROF
VariableToggle(v) ==
    /\ phase = "served"
    /\ v # variable_options
    /\ Commit(VariableWatchers([ Snapshot EXCEPT !.variable = v ]),
              [ type |-> "variable", arg |-> v ])
    /\ UNCHANGED phase

Variables == {"SWE", "HS", "ROF"}

\* the items the user is taken to pick
PickerInputs ==
    { basin_selection.options[i] :
        i \in { k \in 1..Len(basin_selection.options) : k <= MaxPick } }

Next ==
    \/ InitialRender
    \/ \E c \in Cells : MapClick(c)
    \/ PickerClear
    \/ \E b \in PickerInputs : PickerChoose(b)
    \/ ViewToggle
    \/ \E v \in Variables : VariableToggle(v)

Spec == Init /\ [][Next]_vars

(***************************************************************************)
(* Single calls: the functions that read and transform the time-series    *)
(* files, applied to file contents drawn from bounded sets, the            *)
(* aggregation job, and the two locators called on their own.  Each is     *)
(* applied once to the state after construction.                           *)
(***************************************************************************)
\* the dashboard's variables
dashboard_vars ==
    << gdf, basins_list, regions_list, output, variable_options, view_options,
       basin_selection, tap_regional, tap_subbasin, map_plot, snow_plot,
       raised, phase, last_event, recomputations >>

\* longest file drawn, in rows
MaxRows == 3

\* the sequences over S of length 0..n
SeqUpTo(S, n) == UNION { [ 1..k -> S ] : k \in 0..n }

\* the FC cell of a row as read_csv parses it: a boolean, or NaN when the
\* cell is empty
FCValues == {"True", "False", NaN}

\* the rows of a <id>_current.txt file: a day number and the forecast flag
CurrentFileRows == [ date : 1..2, FC : FCValues ]

\* lines 480 / 587: dfcurrent[dfcurrent['FC'] == True]
ForecastRows(dfcurrent) == SelectSeq(dfcurrent, LAMBDA row : row.FC = "True")

\* a faulty split that takes every row that is not a forecast as observed
ObservedRowsNotForecast(dfcurrent) == SelectSeq(dfcurrent, LAMBDA row : row.FC # "True")

\* lines 481 / 588: dfcurrent[dfcurrent['FC'] == False]
ObservedRows(dfcurrent) == SelectSeq(dfcurrent, LAMBDA row : row.FC = "False")

\* lines 478-481 / 585-588 on one current file
SplitCurrent ==
    \E rows \in SeqUpTo(CurrentFileRows, MaxRows) :
      /\ job = "none"
      /\ job' = "split"
      /\ job_input' = rows
      /\ job_output' = [ dfforecast |-> ForecastRows(rows),
                         dfcurrent  |-> ObservedRows(rows) ]
      /\ UNCHANGED dashboard_vars

\* the value of a string of decimal digits
RECURSIVE ParseInt(_)
ParseInt(s) ==
    IF s = "" THEN 0
    ELSE 10 * ParseInt(SubSeq(s, 1, Len(s) - 1))
           + (Ord(SubSeq(s, Len(s), Len(s))) - Ord("0"))

IsLeapYear(y) == (y % 4 = 0 /\ y % 100 # 0) \/ y % 400 = 0

DaysInMonth(y, m) ==
    CASE m \in {4, 6, 9, 11} -> 30
      [] m = 2 -> IF IsLeapYear(y) THEN 29 ELSE 28
      [] OTHER -> 31

\* whether a text of the form YYYY-MM-DD names a day of the calendar
IsDateText(s) ==
    /\ Len(s) = 10
    /\ SubSeq(s, 5, 5) = "-" /\ SubSeq(s, 8, 8) = "-"
    /\ \A i \in {1, 2, 3, 4, 6, 7, 9, 10} :
         \E d \in 0..9 : SubSeq(s, i, i) = ToString(d)
    /\ ParseInt(SubSeq(s, 6, 7)) \in 1..12
    /\ ParseInt(SubSeq(s, 9, 10)) \in
         1..DaysInMonth(ParseInt(SubSeq(s, 1, 4)), ParseInt(SubSeq(s, 6, 7)))

\* lines 270 / 283 / 297: pd.to_datetime of one cell of the date column
to_datetime(s) ==
    [ year  |-> ParseInt(SubSeq(s, 1, 4)),
      month |-> ParseInt(SubSeq(s, 6, 7)),
      day   |-> ParseInt(SubSeq(s, 9, 10)) ]

\* a faulty shift that keeps the day of the month whatever the target month
DateOffsetKeepingDay(t, years) == [ t EXCEPT !.year = @ + years ]

\* line 285: timestamp + pd.DateOffset(years=n); a day past the end of the
\* target month becomes the last day of that month
DateOffset(t, years) ==
    [ year  |-> t.year + years,
      month |-> t.month,
      day   |-> IF t.day > DaysInMonth(t.year + years, t.month)
                THEN DaysInMonth(t.year + years, t.month) ELSE t.day ]

\* the date cells drawn for the previous-year file
DateTexts == {"2023-02-28", "2024-02-28", "2024-02-29", "2023-12-31", "n/a"}

\* the rows of a <id>_previous.txt file
PreviousFileRows == [ date : DateTexts ]

\* lines 276-288 on the rows of the file: the frame with its dates shifted,
\* or the error text when a date does not parse
PreviousYearFrame(rows) ==
    IF \E i \in 1..Len(rows) : ~IsDateText(rows[i].date)
    THEN [ type |-> "str", text |-> "Error in read_previous_year_data_for_basin" ]
    ELSE [ type |-> "DataFrame",
           rows |-> [ i \in 1..Len(rows) |->
                      [ rows[i] EXCEPT !.date = DateOffset(to_datetime(@), 1) ] ] ]

\* read_previous_year_data_for_basin on one previous-year file
ReadPrevious ==
    \E rows \in SeqUpTo(PreviousFileRows, MaxRows) :
      /\ job = "none"
      /\ job' = "previous"
      /\ job_input' = rows
      /\ job_output' = PreviousYearFrame(rows)
      /\ UNCHANGED dashboard_vars

(***************************************************************************)
(* The aggregation job, src/tools/aggregate_latest_data_files.py.          *)
(***************************************************************************)
\* largest number drawn for a cell of a data file
MaxValue == 2

\* a float cell as read_csv parses it: a number, or NaN for an empty cell
Float(v) == [ nan |-> FALSE, v |-> v ]
NotANumber == [ nan |-> TRUE, v |-> 0 ]
Floats == { NotANumber } \cup { Float(v) : v \in 1..MaxValue }

\* a > b and a < b on floats: a comparison with NaN is False
Gt(a, b) == ~a.nan /\ ~b.nan /\ a.v > b.v
Lt(a, b) == ~a.nan /\ ~b.nan /\ a.v < b.v

\* the ids that have files in ./data
DataIds == {"16002", "16008", "AMU_DARYA", "SYR_DARYA"}
DataKinds == {"current", "climate", "previous"}
DataPath(id, kind) == "./data/" \o id \o "_" \o kind \o ".txt"
DataDir == { DataPath(id, kind) : id \in DataIds, kind \in DataKinds }

\* any(char.isdigit() for char in file)
AnyDigit(file) ==
    \E i \in 1..Len(file) : \E d \in 0..9 : SubSeq(file, i, i) = ToString(d)

\* glob.glob(f'./data/*{string}*.txt'): the matching paths, in no given order
Glob(string) == { file \in DataDir : FindSub(file, string, 8) > 0 }

get_all_subbasin_txt_files_that_contain_string(string) ==
    { file \in Glob(string) : AnyDigit(file) }

get_all_region_txt_files_that_contain_string(string) ==
    { file \in Glob(string) : ~AnyDigit(file) }

\* the orders in which a listing can come back
Listings(files) ==
    { l \in [ 1..Cardinality(files) -> files ] :
        \A i, j \in 1..Cardinality(files) : l[i] = l[j] => i = j }

RECURSIVE SplitLast(_, _)
\* s.split(sep)[-1]
SplitLast(s, sep) ==
    IF FindSub(s, sep, 1) = 0 THEN s
    ELSE SplitLast(SubSeq(s, FindSub(s, sep, 1) + Len(sep), Len(s)), sep)

get_basin_id_from_file_path(file_path) == SplitFirst(SplitLast(file_path, "/"), "_")

\* the days the job can run on
JobDates == {"2024-03-01", "2024-03-02"}

\* the last row of a current file, columns date, Q50_SWE, Q50_HS
LastRows == [ date : JobDates, Q50_SWE : Floats, Q50_HS : Floats ]

\* an earlier row that every current file starts with
EarlierRow == [ date |-> "2024-02-29", Q50_SWE |-> Float(1), Q50_HS |-> Float(1) ]

ClimateRow(date, q5_swe, q95_swe, q5_hs, q95_hs) ==
    [ date |-> date, Q5_SWE |-> q5_swe, Q5_HS |-> q5_hs,
      Q50_SWE |-> Float(2), Q50_HS |-> Float(2),
      Q95_SWE |-> q95_swe, Q95_HS |-> q95_hs ]

\* the climate files: the first id of each kind has a row for both days,
\* the second only for the later day; a file's quantiles need not be ordered
ClimateFile(file_path) ==
    IF get_basin_id_from_file_path(file_path) \in {"16002", "AMU"}
    THEN << ClimateRow("2024-03-01", Float(1), Float(1), Float(2), Float(2)),
            ClimateRow("2024-03-02", Float(3), Float(1), NotANumber, Float(2)) >>
    ELSE << ClimateRow("2024-03-02", Float(1), Float(1), Float(3), Float(1)) >>

\* lines 20-30
read_last_data_from_file_to_dataframe(file_path, content) ==
    IF content = << >> THEN << >>
    ELSE << [ date |-> content[Len(content)].date,
              Q50_SWE |-> content[Len(content)].Q50_SWE,
              Q50_HS |-> content[Len(content)].Q50_HS,
              basin_id |-> get_basin_id_from_file_path(file_path) ] >>

\* lines 32-41
read_data_for_date_from_file_to_dataframe(file_path, date) ==
    SelectSeq([ i \in 1..Len(ClimateFile(file_path)) |->
                [ date |-> ClimateFile(file_path)[i].date,
                  Q5_SWE |-> ClimateFile(file_path)[i].Q5_SWE,
                  Q5_HS |-> ClimateFile(file_path)[i].Q5_HS,
                  Q50_SWE |-> ClimateFile(file_path)[i].Q50_SWE,
                  Q50_HS |-> ClimateFile(file_path)[i].Q50_HS,
                  Q95_SWE |-> ClimateFile(file_path)[i].Q95_SWE,
                  Q95_HS |-> ClimateFile(file_path)[i].Q95_HS,
                  basin_id |-> get_basin_id_from_file_path(file_path) ] ],
              LAMBDA row : row.date = date)

\* lines 45 / 53: pd.concat over the listing
LastLines(all_files, content) ==
    Flatten([ i \in 1..Len(all_files) |->
              read_last_data_from_file_to_dataframe(all_files[i], content[all_files[i]]) ])

\* lines 49 / 57: pd.concat over the listing
LinesForDate(all_files, date) ==
    Flatten([ i \in 1..Len(all_files) |->
              read_data_for_date_from_file_to_dataframe(all_files[i], date) ])

\* a faulty classification in which 'high' is assigned last
ThresholdHighLast(current, q5, q95) ==
    IF Gt(current, q95) THEN "high"
    ELSE IF Lt(current, q5) THEN "low" ELSE "normal"

\* lines 73-77 / 80-82 / 100-104 / 107-109 on one row: 'normal', then
\* 'high' where current > Q95, then 'low' where current < Q5
Threshold(current, q5, q95) ==
    IF Lt(current, q5) THEN "low"
    ELSE IF Gt(current, q95) THEN "high" ELSE "normal"

\* lines 63, 69, 71: one row of the inner merge, with the renamed columns
JoinedRow(cur, clim) ==
    [ date |-> cur.date, basin_id |-> cur.basin_id,
      current_swe |-> cur.Q50_SWE, current_hs |-> cur.Q50_HS,
      Q5_SWE |-> clim.Q5_SWE, Q5_HS |-> clim.Q5_HS,
      climate_swe |-> clim.Q50_SWE, climate_hs |-> clim.Q50_HS,
      Q95_SWE |-> clim.Q95_SWE, Q95_HS |-> clim.Q95_HS ]

\* lines 71 / 98: pd.merge(current_data, climate_data, on=['basin_id', 'date'])
MergeInner(current_data, climate_data) ==
    Flatten([ i \in 1..Len(current_data) |->
              [ k \in 1..Len(SelectSeq(climate_data,
                                LAMBDA m : m.basin_id = current_data[i].basin_id
                                           /\ m.date = current_data[i].date)) |->
                JoinedRow(current_data[i],
                          SelectSeq(climate_data,
                                LAMBDA m : m.basin_id = current_data[i].basin_id
                                           /\ m.date = current_data[i].date)[k]) ] ])

\* lines 73-82 / 100-109
WithThresholds(data) ==
    [ i \in 1..Len(data) |->
      [ date |-> data[i].date, basin_id |-> data[i].basin_id,
        current_swe |-> data[i].current_swe, current_hs |-> data[i].current_hs,
        Q5_SWE |-> data[i].Q5_SWE, Q5_HS |-> data[i].Q5_HS,
        climate_swe |-> data[i].climate_swe, climate_hs |-> data[i].climate_hs,
        Q95_SWE |-> data[i].Q95_SWE, Q95_HS |-> data[i].Q95_HS,
        swe_threshold |-> Threshold(data[i].current_swe, data[i].Q5_SWE, data[i].Q95_SWE),
        hs_threshold |-> Threshold(data[i].current_hs, data[i].Q5_HS, data[i].Q95_HS) ] ]

\* lines 61-82 / 88-109 after the listings: the table that is saved
AggregateFrom(current_data, climate_files) ==
    WithThresholds(MergeInner(current_data,
                              LinesForDate(climate_files, current_data[1].date)))

\* what one run of the job reads and writes
JobRun(name, current_files, climate_files, content) ==
    /\ job = "none"
    /\ job' = name
    /\ job_input' = [ files |-> current_files, content |-> content ]
    /\ job_output' = AggregateFrom(LastLines(current_files, content), climate_files)
    /\ UNCHANGED dashboard_vars

\* lines 59-84
aggregate_subbasins_data ==
    \E current_files \in Listings(get_all_subbasin_txt_files_that_contain_string("current")),
       climate_files \in Listings(get_all_subbasin_txt_files_that_contain_string("climate")),
       last \in [ get_all_subbasin_txt_files_that_contain_string("current") -> LastRows ] :
      JobRun("aggregate_subbasins_data", current_files, climate_files,
             [ f \in DOMAIN last |-> << EarlierRow, last[f] >> ])

\* lines 86-111
aggregate_region_data ==
    \E current_files \in Listings(get_all_region_txt_files_that_contain_string("current")),
       climate_files \in Listings(get_all_region_txt_files_that_contain_string("climate")),
       last \in [ get_all_region_txt_files_that_contain_string("current") -> LastRows ] :
      JobRun("aggregate_region_data", current_files, climate_files,
             [ f \in DOMAIN last |-> << EarlierRow, last[f] >> ])

\* the variables of the dashboard other than the shared table
widget_vars ==
    << basins_list, regions_list, output, variable_options, view_options,
       basin_selection, tap_regional, tap_subbasin, map_plot, snow_plot,
       raised, phase, last_event, recomputations >>

\* the coordinates a locator can be called with: the Tap stream before any
\* click, or a click on a cell
TapInputs == { NoTap } \cup { [ x |-> Some(CellCoord("EPSG:3857", c)[1]),
                                y |-> Some(CellCoord("EPSG:3857", c)[2]) ] : c \in Cells }

\* one call of a locator, lines 196-223 / 225-252
LocatorCall(name, tap, result) ==
    /\ job = "none"
    /\ job' = name
    /\ job_input' = tap
    /\ job_output' = result
    /\ gdf' = GdfAfterTap(gdf, tap.x, tap.y)
    /\ UNCHANGED widget_vars

CallSubbasinLocator ==
    \E tap \in TapInputs :
      LocatorCall("get_subbasin_code_from_tap", tap,
                  get_subbasin_code_from_tap(gdf, tap.x, tap.y))

CallRegionLocator ==
    \E tap \in TapInputs :
      LocatorCall("get_region_from_tap", tap, get_region_from_tap(gdf, tap.x, tap.y))

\* the ids the loaders and composers are called with: ids with all files,
\* with a file missing, and the text of None
LoaderIds == {"16001", "16002", "AMU_DARYA", "CHU_TALAS", "None"}

\* the name of the loader of one kind of file
LoaderName(kind) ==
    CASE kind = "current"  -> "read_current_data_for_basin"
      [] kind = "previous" -> "read_previous_year_data_for_basin"
      [] kind = "climate"  -> "read_climate_data_for_basin"

\* mcass-dashboard.py lines 263-300: one loader called twice on the same file
CallLoader ==
    \E basin_code \in LoaderIds, kind \in DataKinds :
      /\ job = "none"
      /\ job' = LoaderName(kind)
      /\ job_input' = << basin_code, kind >>
      /\ job_output' = [ first  |-> ReadFile(basin_code, kind),
                         second |-> ReadFile(basin_code, kind) ]
      /\ UNCHANGED dashboard_vars

\* mcass-dashboard.py lines 470-575 / 577-686: one call of a composer
CallComposer ==
    \E variable \in Variables, i \in 0..MaxPick, regional \in BOOLEAN :
      /\ job = "none"
      /\ job' = IF regional THEN "plot_region_data" ELSE "plot_subbasin_data"
      /\ job_input' = [ variable |-> variable,
                        basin |-> IF i = 0 THEN << >>
                                  ELSE IF regional THEN << regions_list[i] >>
                                  ELSE << basins_list[i] >> ]
      /\ job_output' = IF regional
                       THEN plot_region_data(variable, job_input'.basin)
                       ELSE plot_subbasin_data(gdf, variable, job_input'.basin)
      /\ UNCHANGED dashboard_vars

(***************************************************************************)
(* The earlier dashboard, src/dashboard.py.  Its table is loaded from the  *)
(* same file in the same way (lines 20-36) and has the columns geometry,   *)
(* REGION, CODE and gauges_RIVER that are used here.                       *)
(***************************************************************************)
\* the text of df.head() in the message pane
HeadText(df) == "head of data/" \o df.id \o "_" \o df.kind \o ".txt"

\* dashboard.py lines 156-180: the frame, or the error text; a frame that was
\* read is also appended to the message pane (lines 164, 176).  The result
\* is the returned value with the text of the pane after the call.
dashboard_py_read_data_for_basin(out, basin_code, kind) ==
    [ ret |-> ReadFile(basin_code, kind),
      out |-> IF ReadFile(basin_code, kind).type = "str" THEN out
              ELSE out \o "\n\n" \o HeadText(ReadFile(basin_code, kind)) ]

\* dashboard.py lines 86-114 / 116-145: the locator catches its exception,
\* writes the message pane and returns None
dashboard_py_get_code(out, g, x, y, column, where) ==
    IF x = None \/ y = None \/ TapLookup(g, x, y, column).exc # "none"
    THEN [ ret |-> "None",
           out |-> "Error in " \o where \o "\n\nPlease click on a basin." ]
    ELSE [ ret |-> TapLookup(g, x, y, column).ret[1], out |-> out ]

\* dashboard.py lines 182-219 / 221-267 after the locator: loc is the
\* locator's result, cur the result of the current loader called after it,
\* clim the result of the climate loader called after that
dashboard_py_plot_from(loc, cur, clim, named) ==
    [ ret |-> IF cur.ret.type = "str" \/ clim.ret.type = "str" \/ ~named
              THEN ErrorText("plot_basin_data")
              ELSE [ type |-> "fig", basin_code |-> loc.ret ],
      out |-> clim.out ]

dashboard_py_plot_after_current(loc, cur, named) ==
    dashboard_py_plot_from(loc, cur,
        dashboard_py_read_data_for_basin(cur.out, loc.ret, "climate"), named)

dashboard_py_plot_after_locate(loc, regional) ==
    dashboard_py_plot_after_current(loc,
        dashboard_py_read_data_for_basin(loc.out, loc.ret, "current"),
        regional => BasinName(loc.ret) # None)

\* dashboard.py lines 182-219
dashboard_py_plot_subbasin_data(out, g, x, y) ==
    dashboard_py_plot_after_locate(
        dashboard_py_get_code(out, g, x, y, "CODE", "get_basin_code"), FALSE)

\* dashboard.py lines 221-267
dashboard_py_plot_region_data(out, g, x, y) ==
    dashboard_py_plot_after_locate(
        dashboard_py_get_code(out, g, x, y, "REGION", "get_region"), TRUE)

\* the variables a call in dashboard.py can write
UnchangedButOutput ==
    UNCHANGED << gdf, basins_list, regions_list, variable_options, view_options,
                 basin_selection, tap_regional, tap_subbasin, map_plot, snow_plot,
                 raised, phase, last_event, recomputations >>

\* dashboard.py lines 156-180: one loader called twice on the same file
DashboardPyCallLoader ==
    \E basin_code \in LoaderIds, kind \in {"current", "climate"} :
      /\ job = "none"
      /\ job' = "dashboard.py " \o LoaderName(kind)
      /\ job_input' = << basin_code, kind >>
      /\ job_output' =
           [ first  |-> dashboard_py_read_data_for_basin(output, basin_code, kind).ret,
             second |-> dashboard_py_read_data_for_basin(
                          dashboard_py_read_data_for_basin(output, basin_code, kind).out,
                          basin_code, kind).ret ]
      /\ output' = dashboard_py_read_data_for_basin(
                      dashboard_py_read_data_for_basin(output, basin_code, kind).out,
                      basin_code, kind).out
      /\ UnchangedButOutput

\* dashboard.py lines 182-267: one call of a composer
DashboardPyCallComposer ==
    \E tap \in TapInputs, regional \in BOOLEAN :
      /\ job = "none"
      /\ job' = IF regional THEN "dashboard.py plot_region_data"
                ELSE "dashboard.py plot_subbasin_data"
      /\ job_input' = tap
      /\ job_output' = IF regional
                       THEN dashboard_py_plot_region_data(output, gdf, tap.x, tap.y).ret
                       ELSE dashboard_py_plot_subbasin_data(output, gdf, tap.x, tap.y).ret
      /\ output' = IF regional
                   THEN dashboard_py_plot_region_data(output, gdf, tap.x, tap.y).out
                   ELSE dashboard_py_plot_subbasin_data(output, gdf, tap.x, tap.y).out
      /\ UnchangedButOutput

NextFiles ==
    \/ CallSubbasinLocator
    \/ CallRegionLocator
    \/ CallLoader
    \/ CallComposer
    \/ DashboardPyCallLoader
    \/ DashboardPyCallComposer
    \/ SplitCurrent
    \/ ReadPrevious
    \/ aggregate_subbasins_data
    \/ aggregate_region_data

SpecFiles == Init /\ [][NextFiles]_vars

(***************************************************************************)
(* Properties of the spatial locator                                       *)
(***************************************************************************)
\* the Tap coordinates of a click in cell c
TapAt(c) ==
    [ x |-> Some(CellCoord("EPSG:3857", c)[1]), y |-> Some(CellCoord("EPSG:3857", c)[2]) ]

\* the rows of table g whose polygon holds cell c
ContainingRows(g, c) ==
    { i \in 1..Len(g) : Contains(g[i].geometry, CellCoord("EPSG:4326", c)) }

\* the Tap stream the displayed map feeds
CurrentTap == IF view_options = "Regional" THEN tap_regional ELSE tap_subbasin

\* the locator of the view mode, applied to a Tap value
Locate(g, view_option, tap) ==
    IF view_option = "Regional"
    THEN get_region_from_tap(g, tap.x, tap.y)
    ELSE get_subbasin_code_from_tap(g, tap.x, tap.y)

\* the cell of the click the current Tap value holds, if it holds one
ClickedCells == { c \in Cells : CurrentTap = TapAt(c) }

\* C1: for every click that lies inside exactly one polygon of the geometry
\* table, the sub-basin locator returns that row's label and the regional
\* locator returns that row's REGION, both as normal results.
C1_OnePolygonIdentifier ==
    \A c \in Cells :
      \A i \in ContainingRows(gdf, c) :
        ContainingRows(gdf, c) = {i} =>
          /\ get_subbasin_code_from_tap(gdf, TapAt(c).x, TapAt(c).y)
                = [ exc |-> "none", ret |-> Some(gdf[i].label) ]
          /\ get_region_from_tap(gdf, TapAt(c).x, TapAt(c).y)
                = [ exc |-> "none", ret |-> Some(gdf[i].REGION) ]

\* a click in Sub-basin mode inside exactly one polygon has been handled and
\* the picker holds that polygon's label
C1_Witness ==
    /\ last_event.type = "click"
    /\ view_options = "Sub-basin"
    /\ \E c \in ClickedCells : \E i \in ContainingRows(gdf, c) :
         /\ ContainingRows(gdf, c) = {i}
         /\ basin_selection.value = << gdf[i].label >>

\* C2: for every click that lies inside two or more polygons, the locator
\* returns the identifier of the containing row at the highest position of
\* the table, and no containing row has a smaller area_km2 than that row.
C2_OverlapSmallestLast ==
    \A c \in Cells :
      \A i \in ContainingRows(gdf, c) :
        (Cardinality(ContainingRows(gdf, c)) >= 2
           /\ \A j \in ContainingRows(gdf, c) : j <= i) =>
          /\ get_subbasin_code_from_tap(gdf, TapAt(c).x, TapAt(c).y)
                = [ exc |-> "none", ret |-> Some(gdf[i].label) ]
          /\ get_region_from_tap(gdf, TapAt(c).x, TapAt(c).y)
                = [ exc |-> "none", ret |-> Some(gdf[i].REGION) ]
          /\ \A j \in ContainingRows(gdf, c) : gdf[i].area_km2 <= gdf[j].area_km2

\* a click in Sub-basin mode inside three rows of two different areas has
\* been handled and the picker holds the label of the last of them
C2_Witness ==
    /\ last_event.type = "click"
    /\ view_options = "Sub-basin"
    /\ \E c \in ClickedCells : \E i, k \in ContainingRows(gdf, c) :
         /\ Cardinality(ContainingRows(gdf, c)) >= 3
         /\ \A j \in ContainingRows(gdf, c) : j <= i
         /\ gdf[k].area_km2 > gdf[i].area_km2
         /\ basin_selection.value = << gdf[i].label >>

\* C3: after a click that lies outside all polygons, the locator of the view
\* mode returns None as a normal result: it does not raise.
C3_OutsideReturnsNone ==
    \A c \in ClickedCells :
      (last_event.type = "click" /\ ContainingRows(gdf, c) = {}) =>
        Locate(gdf, view_options, CurrentTap) = [ exc |-> "none", ret |-> None ]

(***************************************************************************)
(* Properties of the selection state                                       *)
(***************************************************************************)
\* the rows of the geometry table flagged selected
SelectedRows == { i \in 1..Len(gdf) : gdf[i].selected }

\* the rows of the geometry table that match a picker value in a view mode
MatchingRows(value, view_option) ==
    IF value = <<>> THEN {}
    ELSE IF view_option = "Regional"
    THEN { i \in 1..Len(gdf) : gdf[i].REGION = value[1] }
    ELSE { i \in 1..Len(gdf) : gdf[i].label = value[1] }

\* C4: after the user picks an item B, the picker's value is [B] and the
\* chart on display is the chart composed for B.
C4_PickSettlesOnChoice ==
    last_event.type = "pick" =>
      /\ basin_selection.value = << last_event.arg >>
      /\ snow_plot = get_snow_plot(gdf, view_options, variable_options,
                                   << last_event.arg >>)

\* C5: after a map click that the locator of the view mode resolves to an
\* identifier, the picker's value is exactly that identifier.
C5_ClickOverwritesPicker ==
    last_event.type = "click" =>
      ( ( Locate(gdf, view_options, CurrentTap).exc = "none"
          /\ Locate(gdf, view_options, CurrentTap).ret # None ) =>
        basin_selection.value = << Locate(gdf, view_options, CurrentTap).ret[1] >> )

\* a resolved click in Regional mode has replaced the default region in the
\* picker by the clicked region
C5_Witness ==
    /\ last_event.type = "click"
    /\ view_options = "Regional"
    /\ Locate(gdf, view_options, CurrentTap).exc = "none"
    /\ Locate(gdf, view_options, CurrentTap).ret # None
    /\ basin_selection.value = << Locate(gdf, view_options, CurrentTap).ret[1] >>
    /\ basin_selection.value # << regions_list[1] >>

\* C6: after a view toggle the picker's options are the list of the new mode
\* and its value is the default of the new mode: the first region, or the
\* basin label at index 37 of the basin list.
C6_ToggleResetsSelection ==
    last_event.type = "view" =>
      IF view_options = "Regional"
      THEN /\ basin_selection.options = regions_list
           /\ basin_selection.value = << regions_list[1] >>
      ELSE /\ basin_selection.options = basins_list
           /\ basin_selection.value = << basins_list[DefaultSubbasinIndex + 1] >>

\* C7: a variable toggle leaves the view mode, the picker's value and
\* options and the selected flags as they were, and the chart it renders
\* carries the y-axis label of the new variable.
C7_VariableToggleFrame ==
    [][ last_event'.type = "variable" =>
          /\ view_options' = view_options
          /\ basin_selection' = basin_selection
          /\ SelectedRows' = SelectedRows
          /\ snow_plot'.type = "fig" => snow_plot'.ylabel = YLabel(variable_options')
      ]_vars

\* C8: in every state the rows flagged selected belong to at most one region
\* in Regional mode and to at most one basin in Sub-basin mode.
C8_AtMostOneSelected ==
    \A i, j \in SelectedRows :
      IF view_options = "Regional"
      THEN gdf[i].REGION = gdf[j].REGION
      ELSE gdf[i].label = gdf[j].label

\* C9: once the panes are built, whenever the picker holds an item the rows
\* flagged selected are exactly the rows that match that item in the view
\* mode.
C9_FlagsMatchPicker ==
    (phase = "served" /\ basin_selection.value # <<>>) =>
      SelectedRows = MatchingRows(basin_selection.value, view_options)

\* C10: when the locator fails on the click the Tap stream holds, the
\* recomputation does not end with an uncaught exception and the message
\* pane shows a diagnostic in place of its initial text.
C10_LocatorFailureCaught ==
    Locate(gdf, view_options, CurrentTap).exc # "none" =>
      /\ raised = "none"
      /\ output # "Default message. Prints: Basin code and name upon click on a basin."

\* C11: a map click that the locator does not resolve to a polygon leaves
\* the view mode, the variable, the picker and the selected flags as they
\* were, and the recomputation ends normally (no error is raised to the user).
C11_UnresolvedClickFrame ==
    [][ ( last_event'.type = "click"
          /\ Locate(gdf', view_options', CurrentTap').ret = None ) =>
          /\ view_options' = view_options
          /\ variable_options' = variable_options
          /\ basin_selection' = basin_selection
          /\ SelectedRows' = SelectedRows
          /\ raised' = "none"
      ]_vars

(***************************************************************************)
(* Properties of the loaders and the chart composer                        *)
(***************************************************************************)
\* the id the chart is composed for: the picker's item up to " - "
SelectedCode == SplitFirst(basin_selection.value[1], " - ")

\* the last event made the chart pane evaluate get_snow_plot for the
\* widgets' present values, and the picker holds an item
ChartSettled ==
    /\ last_event.type \in {"render", "pick", "variable", "view"}
    /\ raised = "none"
    /\ basin_selection.value # <<>>

\* the kinds of file the curves of a variable are drawn from
KindsDrawn(variable) ==
    IF variable = "ROF" THEN {"current", "climate"}
    ELSE {"current", "previous", "climate"}

\* C12 (as the code has it): when a file that the curves of the chosen
\* variable are drawn from is missing for the selected id, its loader returns
\* an error value and the chart pane shows an error message, not a chart, in
\* both view modes; a missing previous-year file does not matter for ROF.
C12_MissingFileGivesMessage ==
    ChartSettled =>
      \A kind \in KindsDrawn(variable_options) :
        << SelectedCode, kind >> \in MissingFiles =>
          /\ ReadFile(SelectedCode, kind).type = "str"
          /\ snow_plot.type = "str"

\* the chart pane shows an error message for a sub-basin whose previous-year
\* file is missing, with a variable that draws the previous-year curve
C12_Witness ==
    /\ ChartSettled
    /\ view_options = "Sub-basin"
    /\ variable_options = "SWE"
    /\ << SelectedCode, "previous" >> \in MissingFiles
    /\ snow_plot.type = "str"

\* C12 (as stated): when any of the current, previous or climate files of
\* the selected id is missing, the chart pane shows an error message in place
\* of a chart, for every variable and view mode.
C12_AnyMissingFileGivesMessage ==
    ChartSettled =>
      \A kind \in {"current", "previous", "climate"} :
        << SelectedCode, kind >> \in MissingFiles => snow_plot.type = "str"

\* the number of positions of sequence rows that hold row r
Count(rows, r) == Cardinality({ i \in 1..Len(rows) : rows[i] = r })

\* C13 (as the code has it): every row of the current file whose FC is a
\* boolean appears in exactly one of the observed and the forecast
\* sub-series, as often as in the file; a row whose FC is empty appears in
\* neither.
C13_SplitByBooleanFlag ==
    job = "split" =>
      \A r \in CurrentFileRows :
        /\ r.FC = "True" =>
              /\ Count(job_output.dfforecast, r) = Count(job_input, r)
              /\ Count(job_output.dfcurrent, r) = 0
        /\ r.FC = "False" =>
              /\ Count(job_output.dfcurrent, r) = Count(job_input, r)
              /\ Count(job_output.dfforecast, r) = 0
        /\ r.FC = NaN =>
              /\ Count(job_output.dfcurrent, r) = 0
              /\ Count(job_output.dfforecast, r) = 0

\* a file with observed and forecast rows has been split into two non-empty
\* sub-series
C13_Witness ==
    /\ job = "split"
    /\ Len(job_output.dfforecast) > 0
    /\ Len(job_output.dfcurrent) > 0
    /\ Len(job_output.dfforecast) + Len(job_output.dfcurrent) = Len(job_input)

\* C13 (as stated): every row of a current file appears in exactly one of
\* the observed and the forecast sub-series.
C13_SplitExhaustive ==
    job = "split" =>
      \A i \in 1..Len(job_input) :
        Count(job_output.dfforecast, job_input[i])
          + Count(job_output.dfcurrent, job_input[i]) = Count(job_input, job_input[i])

\* C14 (as the code has it): the previous-year loader returns one row per
\* row of the file, in order, dated one year later in the same month and on
\* the same day, except that 29 February becomes 28 February.
C14_PreviousShiftedOneYear ==
    (job = "previous" /\ job_output.type = "DataFrame") =>
      /\ Len(job_output.rows) = Len(job_input)
      /\ \A i \in 1..Len(job_input) :
           /\ job_output.rows[i].date.year = to_datetime(job_input[i].date).year + 1
           /\ job_output.rows[i].date.month = to_datetime(job_input[i].date).month
           /\ job_output.rows[i].date.day =
                 IF to_datetime(job_input[i].date).month = 2
                    /\ to_datetime(job_input[i].date).day = 29
                 THEN 28 ELSE to_datetime(job_input[i].date).day

\* a previous-year file with a leap day and an ordinary day has been loaded
C14_Witness ==
    /\ job = "previous"
    /\ job_output.type = "DataFrame"
    /\ \E i, j \in 1..Len(job_input) :
         /\ job_input[i].date = "2024-02-29"
         /\ job_input[j].date = "2023-12-31"
         /\ job_output.rows[i].date = [ year |-> 2025, month |-> 2, day |-> 28 ]
         /\ job_output.rows[j].date = [ year |-> 2024, month |-> 12, day |-> 31 ]

\* C14 (as stated): every row of the previous-year file comes back dated
\* one year later with the same month and the same day, and no row is added
\* or dropped.
C14_SameMonthAndDay ==
    (job = "previous" /\ job_output.type = "DataFrame") =>
      /\ Len(job_output.rows) = Len(job_input)
      /\ \A i \in 1..Len(job_input) :
           job_output.rows[i].date =
             [ year  |-> to_datetime(job_input[i].date).year + 1,
               month |-> to_datetime(job_input[i].date).month,
               day   |-> to_datetime(job_input[i].date).day ]

\* the aggregation job has run
JobDone == job \in {"aggregate_subbasins_data", "aggregate_region_data"}

\* C15 (as the code has it): every row of the job's table has swe_threshold
\* 'low' when the current SWE is below Q5_SWE, otherwise 'high' when it
\* exceeds Q95_SWE, otherwise 'normal', and hs_threshold by the same rule
\* from the HS columns; with Q5 <= Q95 that is the stated rule.
C15_ThresholdLowFirst ==
    JobDone =>
      \A i \in 1..Len(job_output) :
        /\ job_output[i].swe_threshold =
             IF Lt(job_output[i].current_swe, job_output[i].Q5_SWE) THEN "low"
             ELSE IF Gt(job_output[i].current_swe, job_output[i].Q95_SWE) THEN "high"
             ELSE "normal"
        /\ job_output[i].hs_threshold =
             IF Lt(job_output[i].current_hs, job_output[i].Q5_HS) THEN "low"
             ELSE IF Gt(job_output[i].current_hs, job_output[i].Q95_HS) THEN "high"
             ELSE "normal"

\* a run whose table has a row with ordered quantiles flagged 'high', and a
\* row whose current SWE lies above Q95 and below Q5 flagged 'low'
C15_Witness ==
    /\ JobDone
    /\ \E i \in 1..Len(job_output) :
         /\ job_output[i].swe_threshold = "low"
         /\ Gt(job_output[i].current_swe, job_output[i].Q95_SWE)
         /\ Lt(job_output[i].current_swe, job_output[i].Q5_SWE)
    /\ \E i \in 1..Len(job_output) :
         /\ job_output[i].swe_threshold = "high"
         /\ ~Gt(job_output[i].Q5_SWE, job_output[i].Q95_SWE)

\* C15 (as stated): for all values, a row's threshold is 'high' whenever
\* current exceeds Q95, 'low' whenever it is below Q5, 'normal' otherwise.
C15_ThresholdForAllValues ==
    JobDone =>
      \A i \in 1..Len(job_output) :
        /\ Gt(job_output[i].current_swe, job_output[i].Q95_SWE)
             => job_output[i].swe_threshold = "high"
        /\ Lt(job_output[i].current_swe, job_output[i].Q5_SWE)
             => job_output[i].swe_threshold = "low"
        /\ (~Gt(job_output[i].current_swe, job_output[i].Q95_SWE)
             /\ ~Lt(job_output[i].current_swe, job_output[i].Q5_SWE))
             => job_output[i].swe_threshold = "normal"
        /\ Gt(job_output[i].current_hs, job_output[i].Q95_HS)
             => job_output[i].hs_threshold = "high"
        /\ Lt(job_output[i].current_hs, job_output[i].Q5_HS)
             => job_output[i].hs_threshold = "low"
        /\ (~Gt(job_output[i].current_hs, job_output[i].Q95_HS)
             /\ ~Lt(job_output[i].current_hs, job_output[i].Q5_HS))
             => job_output[i].hs_threshold = "normal"

\* the climate file that belongs to a current file
ClimateFileOf(current_file) ==
    DataPath(SplitFirst(SplitLast(current_file, "/"), "_current"), "climate")

\* the rows of a climate file for the date of the current file's last row
OwnClimateRows(current_file) ==
    SelectSeq(ClimateFile(ClimateFileOf(current_file)),
              LAMBDA row : row.date =
                job_input.content[current_file][Len(job_input.content[current_file])].date)

\* C16: every basin whose climate file has a row for the date of the
\* basin's own last current row has exactly one row in the job's table,
\* built from that last current row and that climate row, whatever the last
\* dates of the other basins' files.
C16_OneRowPerBasin ==
    JobDone =>
      \A k \in 1..Len(job_input.files) :
        OwnClimateRows(job_input.files[k]) # << >> =>
          /\ Len(SelectSeq(job_output,
                 LAMBDA row : row.basin_id =
                   get_basin_id_from_file_path(job_input.files[k]))) = 1
          /\ \A i \in 1..Len(job_output) :
               job_output[i].basin_id = get_basin_id_from_file_path(job_input.files[k]) =>
                 /\ job_output[i].date =
                      job_input.content[job_input.files[k]][2].date
                 /\ job_output[i].current_swe =
                      job_input.content[job_input.files[k]][2].Q50_SWE
                 /\ job_output[i].Q95_SWE = OwnClimateRows(job_input.files[k])[1].Q95_SWE

\* the record of the geometry file a row of the table was loaded from; the
\* file numbers its records in the BASIN column
RecordOf(row) == FileRecord(ParseInt(row.BASIN))

\* C17: every row of the loaded table carries the largest-area part of its
\* record's geometry, the first such part when several tie, and the rows are
\* in non-increasing order of area_km2.
C17_LargestPartAndAreaOrder ==
    /\ \A k \in 1..Len(gdf) :
         \E p \in 1..Len(RecordOf(gdf[k]).parts) :
           /\ gdf[k].geometry = Simplify(RecordOf(gdf[k]).parts[p].geom)
           /\ \A q \in 1..Len(RecordOf(gdf[k]).parts) :
                /\ RecordOf(gdf[k]).parts[q].area <= RecordOf(gdf[k]).parts[p].area
                /\ q < p => RecordOf(gdf[k]).parts[q].area < RecordOf(gdf[k]).parts[p].area
    /\ \A k \in 1..(Len(gdf) - 1) : gdf[k].area_km2 >= gdf[k + 1].area_km2

\* the loaded table holds the record whose two largest parts tie, with the
\* first of them as its geometry, and two neighbouring rows of equal area
C17_Witness ==
    /\ job = "none"
    /\ \E k \in 1..Len(gdf) :
         /\ gdf[k].CODE = "16004"
         /\ Len(RecordOf(gdf[k]).parts) = 3
         /\ RecordOf(gdf[k]).parts[2].area = RecordOf(gdf[k]).parts[3].area
         /\ gdf[k].geometry = Simplify(RecordOf(gdf[k]).parts[2].geom)
         /\ gdf[k].geometry # Simplify(RecordOf(gdf[k]).parts[3].geom)
    /\ \E k \in 1..(Len(gdf) - 1) : gdf[k].area_km2 = gdf[k + 1].area_km2

\* C18: the codes of the geometry file being unique, every basin of the
\* file is in exactly one row of the loaded table.
C18_EveryBasinInOneRow ==
    (\A i, j \in 1..NBasins : GeomFile[i].CODE = GeomFile[j].CODE => i = j) =>
      \A i \in 1..NBasins :
        Cardinality({ k \in 1..Len(gdf) : gdf[k].CODE = ToString(GeomFile[i].CODE) }) = 1

\* C19: in the regional view, with the selected region's files in place,
\* the chart card shows a chart also when the region is none of the five
\* regions that have a display name.
C19_UnknownRegionStillCharted ==
    ( /\ ChartSettled
      /\ view_options = "Regional"
      /\ BasinName(SelectedCode) = None
      /\ \A kind \in {"current", "previous", "climate"} :
           << SelectedCode, kind >> \notin MissingFiles )
    => snow_plot.type = "fig"

\* a call of a locator has been made
LocatorCalled == job \in {"get_subbasin_code_from_tap", "get_region_from_tap"}

\* C20: a call of either locator, with any coordinates and whether it
\* returns an identifier, returns None or fails, leaves the shared geometry
\* table as it was.
C20_LocateLeavesGdf ==
    [][ (job = "none" /\ job' \in {"get_subbasin_code_from_tap", "get_region_from_tap"})
        => gdf' = gdf ]_vars

\* a locator was called with a click inside a polygon and returned an
\* identifier
C20_Witness ==
    /\ LocatorCalled
    /\ job_input # NoTap
    /\ job_output.exc = "none"
    /\ job_output.ret # None

\* the names under which the composers are called
ComposerCalls ==
    {"plot_subbasin_data", "plot_region_data",
     "dashboard.py plot_subbasin_data", "dashboard.py plot_region_data"}

\* C21: a call of a chart composer, whether it returns a chart or an error
\* message, leaves the geometry table, the view mode, the variable, the
\* picker's value and options and the message pane as they were.
C21_ComposerLeavesSharedState ==
    [][ (job = "none" /\ job' \in ComposerCalls) =>
          /\ gdf' = gdf
          /\ view_options' = view_options
          /\ variable_options' = variable_options
          /\ basin_selection' = basin_selection
          /\ output' = output ]_vars

\* no user interaction has been handled yet
BeforeInteraction == last_event.type \in {"init", "render"}

\* the widgets as they are constructed at lines 317-337
InitialWidgets ==
    /\ view_options = "Regional"
    /\ variable_options = "SWE"
    /\ basin_selection.options = regions_list
    /\ basin_selection.value = << regions_list[1] >>

\* C22 (as the code has it): before any user interaction the view mode is
\* Regional, the variable is SWE, the picker offers the region list and holds
\* its first region; the rows flagged selected are the rows of that region
\* once the map pane has been built, and until then the one row loaded from
\* the first record of the geometry file.
C22_InitialSelection ==
    BeforeInteraction =>
      /\ InitialWidgets
      /\ phase = "served" => SelectedRows = MatchingRows(<< regions_list[1] >>, "Regional")
      /\ phase = "script" =>
           SelectedRows = { i \in 1..Len(gdf) : gdf[i].CODE = ToString(FileRecord(1).CODE) }

\* the dashboard is served, nothing has been clicked, and the several rows
\* of the first region are the selected ones although the first record of
\* the file is of another region
C22_Witness ==
    /\ phase = "served"
    /\ last_event.type = "render"
    /\ FileRecord(1).REGION # regions_list[1]
    /\ Cardinality(SelectedRows) > 1
    /\ \A i \in SelectedRows : gdf[i].REGION = basin_selection.value[1]

\* C22 (as stated): before any user interaction the widgets are as
\* constructed and the rows flagged selected are the rows of the first
\* region.
C22_InitialFlagsOfFirstRegion ==
    BeforeInteraction =>
      /\ InitialWidgets
      /\ SelectedRows = MatchingRows(<< regions_list[1] >>, "Regional")

\* the names under which the loaders are called
LoaderCalls ==
    { LoaderName(kind) : kind \in DataKinds }
      \cup { "dashboard.py " \o LoaderName(kind) : kind \in {"current", "climate"} }

\* C24: a call of a loader changes neither the geometry table, the
\* selection state nor the message pane, and a second call with the file
\* unchanged returns a result equal to the first.
C24_LoaderStatelessIdempotent ==
    [][ (job = "none" /\ job' \in LoaderCalls) =>
          /\ gdf' = gdf
          /\ view_options' = view_options
          /\ variable_options' = variable_options
          /\ basin_selection' = basin_selection
          /\ output' = output
          /\ job_output'.first = job_output'.second ]_vars

\* C23: the chain of callback runs that a user interaction triggers, with
\* the re-runs caused by callbacks writing the picker, ends within MaxChain
\* runs, so that the next interaction finds no callback pending.
C23_ChainTerminates == recomputations <= MaxChain

\* a view toggle whose callback wrote the picker's options and value, and
\* whose map callback then wrote the picker again from the stale click,
\* has ended without an exception
C23_Witness ==
    /\ last_event.type = "view"
    /\ raised = "none"
    /\ recomputations >= 6
    /\ basin_selection.value # << basin_selection.options[1] >>
    /\ Locate(gdf, view_options, CurrentTap).ret = Some(basin_selection.value[1])

\* C25: the basin_id that the aggregation job derives from the path of each
\* current file is the identifier that names the file, for sub-basin codes
\* and region ids alike, and is the basin_id of the rows it writes.
C25_BasinIdNamesTheFiles ==
    JobDone =>
      /\ \A k \in 1..Len(job_input.files) :
           job_input.files[k] =
             DataPath(get_basin_id_from_file_path(job_input.files[k]), "current")
      /\ \A i \in 1..Len(job_output) : job_output[i].basin_id \in DataIds

\* the code the chart pipeline extracts from a picker item
CodeOfItem(item) == SplitFirst(item, " - ")

\* C26: the text before the first ' - ' of every basin label is the basin's
\* CODE, the same extraction leaves every region id unchanged, and a chart
\* composed for a picker item is drawn from the files of that basin or
\* region.
C26_LabelCodeRoundTrip ==
    /\ \A k \in 1..Len(gdf) : CodeOfItem(gdf[k].label) = gdf[k].CODE
    /\ \A i \in 1..Len(regions_list) : CodeOfItem(regions_list[i]) = regions_list[i]
    /\ (job = "plot_subbasin_data" /\ job_output.type = "fig") =>
         \A k \in 1..Len(gdf) :
           gdf[k].label = job_input.basin[1] => job_output.basin_code = gdf[k].CODE
    /\ (job = "plot_region_data" /\ job_output.type = "fig") =>
         job_output.basin_code = job_input.basin[1]

\* a chart has been composed for a basin label whose river name is known
C26_Witness ==
    /\ job = "plot_subbasin_data"
    /\ job_output.type = "fig"
    /\ \E k \in 1..Len(gdf) :
         /\ gdf[k].label = job_input.basin[1]
         /\ gdf[k].label # gdf[k].CODE
         /\ job_output.basin_code = gdf[k].CODE

\* C27: two rows of the previous-year file with distinct dates have
\* distinct dates after the one-year shift.
C27_ShiftInjective ==
    (job = "previous" /\ job_output.type = "DataFrame") =>
      \A i, j \in 1..Len(job_input) :
        job_input[i].date # job_input[j].date =>
          job_output.rows[i].date # job_output.rows[j].date

\* C28: once the dashboard is served, the picker's value is empty or one
\* item of the picker's options, and the options are the region list in the
\* Regional view and the basin-label list in the Sub-basin view.
C28_PickerValueAmongOptions ==
    phase = "served" =>
      /\ Len(basin_selection.value) <= 1
      /\ \A i \in 1..Len(basin_selection.value) :
           \E k \in 1..Len(basin_selection.options) :
             basin_selection.options[k] = basin_selection.value[i]
      /\ basin_selection.options =
           IF view_options = "Regional" THEN regions_list ELSE basins_list
      /\ regions_list # basins_list

\* in the Sub-basin view, after a view toggle and a click, the picker holds
\* the clicked basin's label, which is not a region id
C28_Witness ==
    /\ view_options = "Sub-basin"
    /\ last_event.type = "click"
    /\ raised = "none"
    /\ basin_selection.options = basins_list
    /\ Locate(gdf, view_options, CurrentTap).ret = Some(basin_selection.value[1])
    /\ \A i \in 1..Len(regions_list) : regions_list[i] # basin_selection.value[1]

====
